---- MODULE Spec2Model ----
(***************************************************************************)
(* Model of the generation wrappers around the model SDK:                  *)
(* the withRetry helper, validateContext, the enum generators built on     *)
(* generateObject, the array generators, generateTweetActions,             *)
(* generateText with its verifiable-inference path and generateImage.      *)
(*                                                                         *)
(* One behaviour of the model is one call of one exported function.  The   *)
(* actions are the points at which the async code resumes: the call        *)
(* itself (up to its first await), the settling of the awaited operation,  *)
(* and the firing of the back-off timer.                                   *)
(***************************************************************************)
EXTENDS Integers, Sequences, FiniteSets

(***************************************************************************)
(* Bounds of the explored inputs                                           *)
(***************************************************************************)
MaxRetriesBound == 4        \* maxRetries ranges over 1..MaxRetriesBound
MaxInitialDelay == 3        \* initialDelay ranges over 1..MaxInitialDelay
MaxMaxDelay == 5            \* maxDelay ranges over 1..MaxMaxDelay

(***************************************************************************)
(* Program constants                                                       *)
(***************************************************************************)
DefaultMaxRetries == 3
DefaultInitialDelay == 1000
DefaultMaxDelay == 8000
NumTweetActions == 4
ImageMaxRetries == 2
ImageInitialDelay == 2000

(***************************************************************************)
(* JavaScript values.  A value is a record with a type tag t and a         *)
(* printed payload v; an error is a record with its class, what it is      *)
(* about, the function that raised it and the invocation that raised it.   *)
(***************************************************************************)
JSNull == [t |-> "null", v |-> ""]
JSUndefined == [t |-> "undefined", v |-> ""]
Str(s) == [t |-> "string", v |-> s]
Bool(b) == [t |-> "boolean", v |-> IF b THEN "true" ELSE "false"]
Arr(s) == [t |-> "array", v |-> s]
EmptyArray == Arr("")

\* !x of JavaScript
Falsy(x) ==
    \/ x.t \in {"null", "undefined"}
    \/ x.t = "string" /\ x.v = ""
    \/ x.t = "boolean" /\ x.v = "false"

\* x === 'true'
IsTrueString(x) == x = Str("true")

\* Array.isArray(x)
IsArray(x) == "t" \in DOMAIN x /\ x.t = "array"

ErrorClasses == {"TypeError", "SyntaxError", "Error"}

\* The values the backend may hand back as result.object
BackendObjects ==
    {Str("true"), Str("false"), Str("RESPOND"), Str(""), JSNull, Arr("a,b")}

Ok(v) == [ok |-> TRUE, value |-> v]
Fail(e) == [ok |-> FALSE, value |-> e]

\* A prompt is a sequence of pieces of text; the empty prompt is <<>>
Contexts == {<< >>, <<"tweet">>}

\* !context
ContextIsEmpty(context) == Len(context) = 0

\* validateContext throws: if (!context) { ...; throw new Error(errorMessage); }
ValidateContextSkipped(context) == FALSE
ValidateContextThrows(context) == ContextIsEmpty(context)

EmptyContextError(functionName) ==
    [class |-> "Error", kind |-> "emptyContext", name |-> functionName, n |-> 0]

\* A failure of the backend call: any error class; either the service failed
\* (transient) or its output could not be turned into the requested shape
BackendError(class, kind, n) ==
    [class |-> class, kind |-> kind, name |-> "aiGenerateObject", n |-> n]

OperationError(class, n) ==
    [class |-> class, kind |-> "transient", name |-> "operation", n |-> n]

(***************************************************************************)
(* withRetry                                                               *)
(***************************************************************************)
Min(a, b) == IF a < b THEN a ELSE b

DefaultOptions ==
    [maxRetries |-> DefaultMaxRetries, initialDelay |-> DefaultInitialDelay,
     maxDelay |-> DefaultMaxDelay, shouldRetry |-> "default"]

\* the default predicate: !(error instanceof TypeError || error instanceof SyntaxError)
DefaultShouldRetry(error) == ~(error.class \in {"TypeError", "SyntaxError"})

ShouldRetry(predicate, error) ==
    CASE predicate = "default" -> DefaultShouldRetry(error)
      [] predicate = "always" -> TRUE
      [] predicate = "never" -> FALSE

\* if (!shouldRetry(error) || retryCount >= maxRetries) throw error
GivesUpLate(predicate, error, count, maxRetries) ==
    ~ShouldRetry(predicate, error) \/ count > maxRetries
GivesUpIgnoringPredicate(predicate, error, count, maxRetries) ==
    count >= maxRetries
GivesUp(predicate, error, count, maxRetries) ==
    ~ShouldRetry(predicate, error) \/ count >= maxRetries

\* retryDelay = Math.min(retryDelay * 2, maxDelay), computed before the wait
NextDelay(delay, maxDelay) == Min(delay * 2, maxDelay)

VARIABLES
    fn,            \* the exported function that was called
    context,       \* its prompt
    options,       \* the RetryOptions of the withRetry call in progress
    pc,            \* where the call is suspended
    retryCount,    \* withRetry: retryCount
    retryDelay,    \* withRetry: retryDelay
    attempts,      \* the settled invocations of operation in this withRetry
    waits,         \* the delays waited by this withRetry, in order
    backendCalls,  \* number of calls of the SDK (aiGenerateObject,
                   \* aiGenerateText, aiGenerateImage) made by the call
    sub,           \* generateTweetActions: the sub-decision in progress
    subResults,    \* generateTweetActions: like, retweet, quote, reply so far
    retryResult,   \* how the withRetry in progress ended, once it has
    outcome,       \* how the call ended: returned value or thrown error
    runtime,       \* which optional members the IAgentRuntime has
    verifiableInference,  \* generateText: the verifiableInference argument
    adapterCalls,  \* calls of runtime.verifiableInferenceAdapter.generateText
    verifyCalls,   \* calls of runtime.verifiableInferenceAdapter.verifyProof
    inferenceResult,  \* handleVerifiableInference: result
    isValid        \* handleVerifiableInference: isValid

vars == <<fn, context, options, pc, retryCount, retryDelay, attempts, waits,
          backendCalls, sub, subResults, retryResult, outcome, runtime,
          verifiableInference, adapterCalls, verifyCalls, inferenceResult,
          isValid>>

Functions ==
    {"withRetry", "generateShouldRespond", "generateTrueOrFalse",
     "generateTextArray", "generateObject", "generateObjectDeprecated",
     "generateObjectArray", "generateTweetActions", "generateText",
     "generateImage"}

\* the runtimes: with or without a verifiableInferenceAdapter (read by
\* generateText) and an imageModelProvider (read by generateImage)
NoRuntimeExtras ==
    [verifiableInferenceAdapter |-> FALSE, imageModelProvider |-> FALSE]
Runtimes(f) ==
    CASE f = "generateText" ->
            [verifiableInferenceAdapter : BOOLEAN, imageModelProvider : {FALSE}]
      [] f = "generateImage" ->
            [verifiableInferenceAdapter : {FALSE}, imageModelProvider : BOOLEAN]
      [] OTHER -> {NoRuntimeExtras}

RetryOptionsSet ==
    [maxRetries : 1..MaxRetriesBound, initialDelay : 1..MaxInitialDelay,
     maxDelay : 1..MaxMaxDelay, shouldRetry : {"default", "always", "never"}]

Pending == [kind |-> "pending", value |-> JSUndefined]
Returned(v) == [kind |-> "return", value |-> v]
Thrown(e) == [kind |-> "throw", value |-> e]

\* return await operation()
RetrySuccessDropped(value) == Returned(JSUndefined)
RetrySuccess(value) == Returned(value)

Init ==
    /\ fn \in Functions
    /\ context \in Contexts
    /\ options \in IF fn = "withRetry" THEN RetryOptionsSet ELSE {DefaultOptions}
    /\ pc = "start"
    /\ retryCount = 0
    /\ retryDelay = 0
    /\ attempts = << >>
    /\ waits = << >>
    /\ backendCalls = 0
    /\ sub = 0
    /\ subResults = << >>
    /\ retryResult = Pending
    /\ outcome = Pending
    /\ runtime \in Runtimes(fn)
    /\ verifiableInference \in IF fn = "generateText" THEN BOOLEAN ELSE {FALSE}
    /\ adapterCalls = 0
    /\ verifyCalls = 0
    /\ inferenceResult = JSUndefined
    /\ isValid = JSUndefined

inputs == <<fn, context, runtime, verifiableInference>>
adapter == <<adapterCalls, verifyCalls, inferenceResult, isValid>>
loop == <<options, retryCount, retryDelay, attempts, waits, retryResult>>
tweet == <<sub, subResults>>

\* the call ends: it returns a value or throws an error to its caller
End(o) ==
    /\ outcome' = o
    /\ pc' = "done"

\* withRetry is entered: lines 79-87, then the first operation() is awaited
EnterRetry(opts) ==
    /\ options' = opts
    /\ retryCount' = 0
    /\ retryDelay' = opts.initialDelay
    /\ attempts' = << >>
    /\ waits' = << >>
    /\ retryResult' = Pending
    /\ pc' = "attempt"

\* generateEnum up to its first await: validateContext, then withRetry
EnterGenerateEnum(enumContext, functionName) ==
    IF ValidateContextThrows(enumContext)
    THEN End(Thrown(EmptyContextError(functionName))) /\ UNCHANGED loop
    ELSE EnterRetry(DefaultOptions) /\ UNCHANGED outcome

\* the prompt generateTweetActions hands to generateEnum for sub-decision i
TweetQuestions ==
    <<"Should I like this tweet?", "Should I retweet this tweet?",
      "Should I quote this tweet?", "Should I reply to this tweet?">>
TweetFunctionNames ==
    <<"generateTweetActions_like", "generateTweetActions_retweet",
      "generateTweetActions_quote", "generateTweetActions_reply">>
TweetContext(ctx, i) == ctx \o <<"\n", TweetQuestions[i]>>

\* the prompt the operation of the withRetry in progress was built with
OperationContext ==
    IF fn = "generateTweetActions" THEN TweetContext(context, sub) ELSE context

(***************************************************************************)
(* generateObject: what one call of it can do                              *)
(***************************************************************************)
BackendOutcomes(n) ==
    {Ok(o) : o \in BackendObjects}
        \cup {Fail(BackendError(c, k, n)) :
                 c \in ErrorClasses, k \in {"transient", "parse"}}

GenerateObjectOutcomes(ctx, n) ==
    IF ContextIsEmpty(ctx)
    THEN {Fail(EmptyContextError("generateObject"))}
    ELSE BackendOutcomes(n)

(***************************************************************************)
(* generateImage: its retry policy and what its operation can do           *)
(***************************************************************************)
ImageOptions ==
    [maxRetries |-> ImageMaxRetries, initialDelay |-> ImageInitialDelay,
     maxDelay |-> DefaultMaxDelay, shouldRetry |-> "default"]

\* result.images of aiGenerateImage
BackendImages == {Arr("image1"), Arr("image1,image2")}

\* return { success: true, data: result.images, error: undefined }
ImageSuccess(images) ==
    [t |-> "object", v |-> "ImageResult", success |-> Bool(TRUE),
     data |-> images, error |-> JSUndefined]

\* return { success: false, error: "No model settings available" }
ImageNoSettings ==
    [t |-> "object", v |-> "ImageResult", success |-> Bool(FALSE),
     error |-> Str("No model settings available")]

ImageError(class, n) ==
    [class |-> class, kind |-> "transient", name |-> "aiGenerateImage", n |-> n]

\* the operation of lines 477-491: the image call, then the result object
GenerateImageOutcomes(n) ==
    {Ok(ImageSuccess(images)) : images \in BackendImages}
        \cup {Fail(ImageError(c, n)) : c \in ErrorClasses}

\* what one invocation of the operation passed to withRetry can do
OperationOutcomes(n) ==
    CASE fn = "withRetry" ->
            {Ok(Str("ok")), Ok(JSNull)}
                \cup {Fail(OperationError(c, n)) : c \in ErrorClasses}
      [] fn = "generateImage" -> GenerateImageOutcomes(backendCalls + 1)
      [] OTHER -> GenerateObjectOutcomes(OperationContext, backendCalls + 1)

\* whether that invocation reaches the SDK: the operation given to
\* withRetry directly is opaque, generateObject stops at an empty prompt,
\* the image call has no check in front of it
OperationCallsBackend ==
    CASE fn = "withRetry" -> FALSE
      [] fn = "generateImage" -> TRUE
      [] OTHER -> ~ContextIsEmpty(OperationContext)

(***************************************************************************)
(* The calls                                                               *)
(***************************************************************************)
CallWithRetry ==
    /\ pc = "start"
    /\ fn = "withRetry"
    /\ EnterRetry(options)
    /\ UNCHANGED <<inputs, adapter, backendCalls, tweet, outcome>>

CallGenerateShouldRespond ==
    /\ pc = "start"
    /\ fn = "generateShouldRespond"
    /\ EnterGenerateEnum(context, "generateShouldRespond")
    /\ UNCHANGED <<inputs, adapter, backendCalls, tweet>>

CallGenerateTrueOrFalse ==
    /\ pc = "start"
    /\ fn = "generateTrueOrFalse"
    /\ EnterGenerateEnum(context, "generateTrueOrFalse")
    /\ UNCHANGED <<inputs, adapter, backendCalls, tweet>>

CallGenerateTextArray ==
    /\ pc = "start"
    /\ fn = "generateTextArray"
    /\ IF ValidateContextThrows(context)
       THEN End(Thrown(EmptyContextError("generateTextArray"))) /\ UNCHANGED loop
       ELSE EnterRetry(DefaultOptions) /\ UNCHANGED outcome
    /\ UNCHANGED <<inputs, adapter, backendCalls, tweet>>

\* generateObject up to the backend call: the check of lines 342-346
EnterGenerateObject ==
    IF ContextIsEmpty(context)
    THEN End(Thrown(EmptyContextError("generateObject")))
    ELSE pc' = "object_call" /\ UNCHANGED outcome

CallGenerateObject ==
    /\ pc = "start"
    /\ fn = "generateObject"
    /\ EnterGenerateObject
    /\ UNCHANGED <<inputs, adapter, loop, backendCalls, tweet>>

CallGenerateObjectDeprecated ==
    /\ pc = "start"
    /\ fn = "generateObjectDeprecated"
    /\ EnterGenerateObject
    /\ UNCHANGED <<inputs, adapter, loop, backendCalls, tweet>>

\* if (!context) { ...; return []; }
ObjectArrayOnEmptyContextThrows == Thrown(EmptyContextError("generateObjectArray"))
ObjectArrayOnEmptyContext == Returned(EmptyArray)

CallGenerateObjectArray ==
    /\ pc = "start"
    /\ fn = "generateObjectArray"
    /\ IF ContextIsEmpty(context)
       THEN End(ObjectArrayOnEmptyContext)
       ELSE pc' = "object_call" /\ UNCHANGED outcome
    /\ UNCHANGED <<inputs, adapter, loop, backendCalls, tweet>>

CallGenerateTweetActions ==
    /\ pc = "start"
    /\ fn = "generateTweetActions"
    /\ sub' = 1
    /\ subResults' = << >>
    /\ EnterGenerateEnum(TweetContext(context, 1), TweetFunctionNames[1])
    /\ UNCHANGED <<inputs, adapter, backendCalls>>

(***************************************************************************)
(* withRetry: the awaited operation settles (lines 90-102)                 *)
(***************************************************************************)
OperationSettles ==
    /\ pc = "attempt"
    /\ \E r \in OperationOutcomes(Len(attempts) + 1) :
        /\ attempts' = Append(attempts, r)
        /\ backendCalls' =
              IF OperationCallsBackend THEN backendCalls + 1 ELSE backendCalls
        /\ IF r.ok
           THEN /\ retryResult' = RetrySuccess(r.value)
                /\ pc' = "resume"
                /\ UNCHANGED <<retryCount, retryDelay>>
           ELSE /\ retryCount' = retryCount + 1
                /\ IF GivesUp(options.shouldRetry, r.value, retryCount + 1,
                              options.maxRetries)
                   THEN /\ retryResult' = Thrown(r.value)
                        /\ pc' = "resume"
                        /\ UNCHANGED retryDelay
                   ELSE /\ retryDelay' = NextDelay(retryDelay, options.maxDelay)
                        /\ pc' = "wait"
                        /\ UNCHANGED retryResult
    /\ UNCHANGED <<inputs, adapter, options, waits, tweet, outcome>>

\* await new Promise((resolve) => setTimeout(resolve, retryDelay)), then the
\* loop invokes operation again
TimerFires ==
    /\ pc = "wait"
    /\ waits' = Append(waits, retryDelay)
    /\ pc' = "attempt"
    /\ UNCHANGED <<inputs, adapter, options, retryCount, retryDelay, attempts,
                   retryResult, backendCalls, tweet, outcome>>

(***************************************************************************)
(* withRetry has returned or thrown: the caller resumes                    *)
(***************************************************************************)
ResumeWithRetry ==
    /\ pc = "resume"
    /\ fn = "withRetry"
    /\ End(retryResult)
    /\ UNCHANGED <<inputs, adapter, loop, backendCalls, tweet>>

\* generateEnum: return object as T, or the error of withRetry propagates
ResumeGenerateShouldRespond ==
    /\ pc = "resume"
    /\ fn = "generateShouldRespond"
    /\ End(retryResult)
    /\ UNCHANGED <<inputs, adapter, loop, backendCalls, tweet>>

\* return result === 'true'
ResumeGenerateTrueOrFalse ==
    /\ pc = "resume"
    /\ fn = "generateTrueOrFalse"
    /\ IF retryResult.kind = "return"
       THEN End(Returned(Bool(IsTrueString(retryResult.value))))
       ELSE End(retryResult)
    /\ UNCHANGED <<inputs, adapter, loop, backendCalls, tweet>>

\* return object as string[]
ResumeGenerateTextArray ==
    /\ pc = "resume"
    /\ fn = "generateTextArray"
    /\ End(retryResult)
    /\ UNCHANGED <<inputs, adapter, loop, backendCalls, tweet>>

\* if (!like || !retweet) return null
TweetMissingBoth(results) == Falsy(results[1]) /\ Falsy(results[2])
TweetMissing(results) == Falsy(results[1]) \/ Falsy(results[2])

\* the object literal of lines 575-580
ActionResponse(results) ==
    [t |-> "object", v |-> "ActionResponse",
     like |-> Bool(IsTrueString(results[1])),
     retweet |-> Bool(IsTrueString(results[2])),
     quote |-> Bool(IsTrueString(results[3])),
     reply |-> Bool(IsTrueString(results[4]))]

TweetResult(results) ==
    IF TweetMissing(results) THEN JSNull ELSE ActionResponse(results)

\* catch (error) { ...; return null; }
TweetCatchRethrow(error) == Thrown(error)
TweetCatch(error) == Returned(JSNull)

ResumeGenerateTweetActions ==
    /\ pc = "resume"
    /\ fn = "generateTweetActions"
    /\ IF retryResult.kind = "throw"
       THEN /\ End(TweetCatch(retryResult.value))
            /\ UNCHANGED <<loop, tweet>>
       ELSE /\ subResults' = Append(subResults, retryResult.value)
            /\ IF sub < NumTweetActions
               THEN /\ sub' = sub + 1
                    /\ EnterGenerateEnum(TweetContext(context, sub + 1),
                                         TweetFunctionNames[sub + 1])
               ELSE /\ End(Returned(TweetResult(subResults')))
                    /\ UNCHANGED <<loop, sub>>
    /\ UNCHANGED <<inputs, adapter, backendCalls>>

(***************************************************************************)
(* generateObject called directly: the backend call settles                *)
(***************************************************************************)
SettleGenerateObject ==
    /\ pc = "object_call"
    /\ fn \in {"generateObject", "generateObjectDeprecated"}
    /\ \E r \in BackendOutcomes(backendCalls + 1) :
        /\ backendCalls' = backendCalls + 1
        /\ End(IF r.ok THEN Returned(r.value) ELSE Thrown(r.value))
    /\ UNCHANGED <<inputs, adapter, loop, tweet>>

\* return Array.isArray(result.object) ? result.object : []
ObjectArrayResult(object) == IF IsArray(object) THEN object ELSE EmptyArray

SettleGenerateObjectArray ==
    /\ pc = "object_call"
    /\ fn = "generateObjectArray"
    /\ \E r \in BackendOutcomes(backendCalls + 1) :
        /\ backendCalls' = backendCalls + 1
        /\ End(IF r.ok THEN Returned(ObjectArrayResult(r.value))
                       ELSE Thrown(r.value))
    /\ UNCHANGED <<inputs, adapter, loop, tweet>>

(***************************************************************************)
(* generateText and handleVerifiableInference                              *)
(***************************************************************************)
\* the texts a backend or an adapter may produce
Texts == {Str("answer"), Str("")}

\* a VerifiableInferenceResult: the text and its proof
InferenceResult(text) == [t |-> "object", v |-> "VerifiableInferenceResult", text |-> text]

AdapterError(class, method) ==
    [class |-> class, kind |-> "transient", name |-> method, n |-> 1]

\* throw new Error("Failed to verify inference proof")
VerificationError ==
    [class |-> "Error", kind |-> "verification",
     name |-> "handleVerifiableInference", n |-> 0]

\* if (verifiableInference && runtime.verifiableInferenceAdapter)
UsesVerifiableInference ==
    verifiableInference /\ runtime.verifiableInferenceAdapter

\* if (!isValid)
ProofAlwaysAccepted(valid) == FALSE
ProofRejected(valid) == Falsy(valid)

\* generateText up to its first await: validateContext, then the adapter
\* (lines 169-171, 198-204) or the SDK (lines 173-182)
CallGenerateText ==
    /\ pc = "start"
    /\ fn = "generateText"
    /\ IF ValidateContextThrows(context)
       THEN End(Thrown(EmptyContextError("generateText")))
       ELSE /\ pc' = IF UsesVerifiableInference THEN "adapter_generate"
                                                ELSE "text_call"
            /\ UNCHANGED outcome
    /\ UNCHANGED <<inputs, adapter, loop, backendCalls, tweet>>

\* const { text } = await aiGenerateText(...); return text
SettleGenerateText ==
    /\ pc = "text_call"
    /\ fn = "generateText"
    /\ backendCalls' = backendCalls + 1
    /\ \/ \E text \in Texts : End(Returned(text))
       \/ \E c \in ErrorClasses :
              End(Thrown([class |-> c, kind |-> "transient",
                          name |-> "aiGenerateText", n |-> 1]))
    /\ UNCHANGED <<inputs, adapter, loop, tweet>>

\* await runtime.verifiableInferenceAdapter.generateText(...) settles; a
\* failure is caught, logged and thrown again (lines 214-217)
AdapterGenerateSettles ==
    /\ pc = "adapter_generate"
    /\ adapterCalls' = adapterCalls + 1
    /\ \/ \E text \in Texts :
              /\ inferenceResult' = InferenceResult(text)
              /\ pc' = "verify"
              /\ UNCHANGED outcome
       \/ \E c \in ErrorClasses :
              /\ End(Thrown(AdapterError(c, "generateText")))
              /\ UNCHANGED inferenceResult
    /\ UNCHANGED <<inputs, verifyCalls, isValid, loop, backendCalls, tweet>>

\* await runtime.verifiableInferenceAdapter.verifyProof(result) settles
\* (lines 208-217)
VerifyProofSettles ==
    /\ pc = "verify"
    /\ verifyCalls' = verifyCalls + 1
    /\ \/ \E valid \in BOOLEAN :
              /\ isValid' = Bool(valid)
              /\ IF ProofRejected(Bool(valid))
                 THEN End(Thrown(VerificationError))
                 ELSE End(Returned(inferenceResult.text))
       \/ \E c \in ErrorClasses :
              /\ End(Thrown(AdapterError(c, "verifyProof")))
              /\ UNCHANGED isValid
    /\ UNCHANGED <<inputs, adapterCalls, inferenceResult, loop, backendCalls,
                   tweet>>

(***************************************************************************)
(* generateImage                                                           *)
(***************************************************************************)
\* generateImage up to its first await: the check of lines 466-471, then
\* withRetry with maxRetries 2 and initialDelay 2000
CallGenerateImage ==
    /\ pc = "start"
    /\ fn = "generateImage"
    /\ IF ~runtime.imageModelProvider
       THEN End(Returned(ImageNoSettings)) /\ UNCHANGED loop
       ELSE EnterRetry(ImageOptions) /\ UNCHANGED outcome
    /\ UNCHANGED <<inputs, adapter, backendCalls, tweet>>

\* await withRetry(...) is a statement (line 477): its value is not
\* returned and the function body ends at line 495
ImageResolution(value) == JSUndefined

ResumeGenerateImage ==
    /\ pc = "resume"
    /\ fn = "generateImage"
    /\ IF retryResult.kind = "return"
       THEN End(Returned(ImageResolution(retryResult.value)))
       ELSE End(retryResult)
    /\ UNCHANGED <<inputs, adapter, loop, backendCalls, tweet>>

Next ==
    \/ CallWithRetry
    \/ CallGenerateShouldRespond
    \/ CallGenerateTrueOrFalse
    \/ CallGenerateTextArray
    \/ CallGenerateObject
    \/ CallGenerateObjectDeprecated
    \/ CallGenerateObjectArray
    \/ CallGenerateTweetActions
    \/ OperationSettles
    \/ TimerFires
    \/ ResumeWithRetry
    \/ ResumeGenerateShouldRespond
    \/ ResumeGenerateTrueOrFalse
    \/ ResumeGenerateTextArray
    \/ ResumeGenerateTweetActions
    \/ SettleGenerateObject
    \/ SettleGenerateObjectArray
    \/ CallGenerateText
    \/ SettleGenerateText
    \/ AdapterGenerateSettles
    \/ VerifyProofSettles
    \/ CallGenerateImage
    \/ ResumeGenerateImage

Spec == Init /\ [][Next]_vars

(***************************************************************************)
(* Properties                                                              *)
(***************************************************************************)
RECURSIVE Pow2(_)
Pow2(k) == IF k = 0 THEN 1 ELSE 2 * Pow2(k - 1)

\* the error is one for which the shouldRetry of the options returns true
Retryable(opts, error) ==
    \/ opts.shouldRetry = "always"
    \/ opts.shouldRetry = "default" /\ error.class = "Error"

FailedRetryably(i) == ~attempts[i].ok /\ Retryable(options, attempts[i].value)

\* every invocation of the operation so far failed with a retryable error
AlwaysFailedRetryably ==
    /\ Len(attempts) >= 1
    /\ \A i \in 1..Len(attempts) : FailedRetryably(i)

\* C1: an operation that fails on every invocation with a retryable error is
\* invoked exactly maxRetries times; withRetry then throws the error of the
\* last invocation and never returns a value.
C1_ExactlyMaxRetriesThenThrow ==
    AlwaysFailedRetryably =>
        /\ Len(attempts) <= options.maxRetries
        /\ retryResult.kind # "return"
        /\ pc \in {"attempt", "wait"} => Len(attempts) < options.maxRetries
        /\ pc \in {"resume", "done"} =>
              /\ Len(attempts) = options.maxRetries
              /\ retryResult = Thrown(attempts[Len(attempts)].value)

C1_Witness ==
    /\ fn = "withRetry"
    /\ pc = "done"
    /\ AlwaysFailedRetryably
    /\ options.maxRetries >= 3
    /\ Len(attempts) = options.maxRetries
    /\ outcome = Thrown(attempts[Len(attempts)].value)

\* C2: the k-th wait of withRetry, between failed attempt k and attempt
\* k+1, equals min(initialDelay * 2^(k-1), maxDelay).
C2_WaitIsCurrentDelay ==
    \A k \in 1..Len(waits) :
        waits[k] = Min(options.initialDelay * Pow2(k - 1), options.maxDelay)

\* C3: when the first failure of the operation is one for which shouldRetry
\* returns false, withRetry throws that error after exactly one invocation
\* and no wait, whatever maxRetries is.
FirstFailureNotRetryable ==
    /\ Len(attempts) >= 1
    /\ ~attempts[1].ok
    /\ \/ options.shouldRetry = "never"
       \/ /\ options.shouldRetry = "default"
          /\ attempts[1].value.class \in {"TypeError", "SyntaxError"}

C3_NonRetryableShortCircuits ==
    FirstFailureNotRetryable =>
        /\ Len(attempts) = 1
        /\ waits = << >>
        /\ pc \in {"resume", "done"}
        /\ retryResult = Thrown(attempts[1].value)

C3_Witness ==
    /\ fn = "withRetry"
    /\ pc = "done"
    /\ FirstFailureNotRetryable
    /\ options.shouldRetry = "default"
    /\ options.maxRetries >= 3
    /\ outcome = Thrown(attempts[1].value)

\* C4: after k retryable failures (1 <= k < maxRetries) followed by a success
\* withRetry returns the value of the success after exactly k+1 invocations
\* and k waits, retryCount is k, and the operation is not invoked again.
FailuresThenSuccess(k) ==
    /\ Len(attempts) = k + 1
    /\ \A i \in 1..k : FailedRetryably(i)
    /\ attempts[k + 1].ok

C4_SuccessAfterRetries ==
    /\ \A i \in 1..Len(attempts) : attempts[i].ok => i = Len(attempts)
    /\ \A k \in 1..Len(attempts) :
          (k < options.maxRetries /\ FailuresThenSuccess(k)) =>
              /\ pc \in {"resume", "done"}
              /\ retryResult = Returned(attempts[k + 1].value)
              /\ Len(waits) = k
              /\ retryCount = k

C4_Witness ==
    /\ fn = "withRetry"
    /\ pc = "done"
    /\ FailuresThenSuccess(2)
    /\ outcome = Returned(Str("ok"))
    /\ Len(waits) = 2

EnumFunctions == {"generateShouldRespond", "generateTrueOrFalse"}

\* C5: the enum generators called with an empty prompt throw the
\* empty-context error before withRetry is entered: no backend call, no
\* invocation of the operation, no wait.
C5_EmptyPromptEnumFailsFast ==
    (fn \in EnumFunctions /\ context = << >>) =>
        /\ backendCalls = 0
        /\ attempts = << >>
        /\ waits = << >>
        /\ pc \in {"start", "done"}
        /\ pc = "done" => outcome = Thrown(EmptyContextError(fn))

C5_Witness ==
    /\ fn = "generateTrueOrFalse"
    /\ context = << >>
    /\ pc = "done"
    /\ outcome.kind = "throw"
    /\ outcome.value.kind = "emptyContext"
    /\ backendCalls = 0

IsNullish(x) == x.t \in {"null", "undefined"}

IsBoolean(x) == DOMAIN x = {"t", "v"} /\ x.t = "boolean" /\ x.v \in {"true", "false"}

\* C6: generateTweetActions returns null whenever like or retweet resolved
\* to null or undefined, whatever quote and reply resolved to, and every
\* result that is not null has the four keys like, retweet, quote and reply
\* with boolean values.
C6_NoPartialMapping ==
    (fn = "generateTweetActions" /\ pc = "done" /\ outcome.kind = "return") =>
        /\ (\E i \in 1..Min(2, Len(subResults)) : IsNullish(subResults[i]))
              => outcome.value = JSNull
        /\ outcome.value # JSNull =>
              /\ DOMAIN outcome.value =
                    {"t", "v", "like", "retweet", "quote", "reply"}
              /\ IsBoolean(outcome.value.like)
              /\ IsBoolean(outcome.value.retweet)
              /\ IsBoolean(outcome.value.quote)
              /\ IsBoolean(outcome.value.reply)

C6_Witness ==
    /\ fn = "generateTweetActions"
    /\ pc = "done"
    /\ Len(subResults) = NumTweetActions
    /\ subResults[1] = Str("true")
    /\ subResults[2] = JSNull
    /\ subResults[3] = Str("true")
    /\ subResults[4] = Str("false")
    /\ outcome = Returned(JSNull)

\* C7: when the retry loop of a sub-decision of generateTweetActions ends in
\* a failure, generateTweetActions returns null, it never throws, and the
\* sub-decisions after the failing one are not evaluated.
C7_SubDecisionFailureGivesNull ==
    fn = "generateTweetActions" =>
        /\ outcome.kind # "throw"
        /\ (pc = "done" /\ retryResult.kind = "throw") =>
              /\ outcome = Returned(JSNull)
              /\ Len(subResults) = sub - 1
              /\ ~attempts[Len(attempts)].ok

C7_Witness ==
    /\ fn = "generateTweetActions"
    /\ pc = "done"
    /\ retryResult.kind = "throw"
    /\ sub = 2
    /\ Len(subResults) = 1
    /\ outcome = Returned(JSNull)

ArrayFunctions == {"generateObjectArray", "generateTextArray"}

IsParseFailure(o) == o.kind = "throw" /\ o.value.kind = "parse"

\* C8: generateObjectArray and generateTextArray, called with a prompt, do
\* not fail when the backend output cannot be interpreted as the requested
\* shape and return nothing but an array: the empty one when the backend
\* returned a value that is not an array.
C8_ArrayPathDegradesToEmpty ==
    (fn \in ArrayFunctions /\ pc = "done" /\ context # << >>) =>
        /\ ~IsParseFailure(outcome)
        /\ outcome.kind = "return" => IsArray(outcome.value)

\* C9: on the enum and object paths a backend failure to produce the
\* requested shape is not retried: it ends the call, which has then invoked
\* the backend exactly once.
C9_ParseFailureNotRetried ==
    /\ fn \in EnumFunctions =>
          \A i \in 1..Len(attempts) :
              (~attempts[i].ok /\ attempts[i].value.kind = "parse") =>
                  /\ i = 1
                  /\ Len(attempts) = 1
                  /\ backendCalls = 1
                  /\ pc \in {"resume", "done"}
                  /\ retryResult = Thrown(attempts[i].value)
    /\ (fn \in {"generateObject", "generateObjectDeprecated"}
          /\ IsParseFailure(outcome)) => backendCalls = 1

StructuredFunctions ==
    {"generateObject", "generateObjectDeprecated", "generateObjectArray",
     "generateTextArray"}

C11_VerificationFailureIsFatal ==
    (fn = "generateText" /\ UsesVerifiableInference) =>
        /\ adapterCalls <= 1
        /\ verifyCalls <= 1
        /\ backendCalls = 0
        /\ attempts = << >>
        /\ waits = << >>
        /\ isValid = Bool(FALSE) =>
              /\ pc = "done"
              /\ adapterCalls = 1
              /\ verifyCalls = 1
              /\ outcome = Thrown(VerificationError)
        /\ outcome.kind = "return" =>
              /\ isValid = Bool(TRUE)
              /\ outcome.value = inferenceResult.text

C11_Witness ==
    /\ fn = "generateText"
    /\ UsesVerifiableInference
    /\ pc = "done"
    /\ inferenceResult = InferenceResult(Str("answer"))
    /\ isValid = Bool(FALSE)
    /\ adapterCalls = 1
    /\ verifyCalls = 1
    /\ outcome.kind = "throw"

IsImageResult(x) ==
    /\ x.t = "object"
    /\ "success" \in DOMAIN x
    /\ DOMAIN x \subseteq {"t", "v", "success", "data", "error"}
    /\ IsBoolean(x.success)

\* C12: generateImage never resolves to undefined: every value it resolves
\* to is a result object with a boolean success, success = false with an
\* error when the runtime has no image model provider, and success = true
\* with the images of the backend when the image call succeeded within the
\* retry policy (maxRetries = 2, initialDelay = 2000).
C12_ImageResultHasDeclaredShape ==
    (fn = "generateImage" /\ pc = "done" /\ outcome.kind = "return") =>
        /\ outcome.value # JSUndefined
        /\ IsImageResult(outcome.value)
        /\ ~runtime.imageModelProvider =>
              /\ outcome.value.success = Bool(FALSE)
              /\ "error" \in DOMAIN outcome.value
        /\ runtime.imageModelProvider =>
              /\ options.maxRetries = ImageMaxRetries
              /\ options.initialDelay = ImageInitialDelay
              /\ outcome.value.success = Bool(TRUE)
              /\ outcome.value.data = attempts[Len(attempts)].value.data

====
